---- MODULE Spec2Model ----
(***************************************************************************)
(* A model of shallowCopy and deepCopy (src/深拷贝和浅拷贝.js).              *)
(*                                                                         *)
(* The JavaScript heap is a sequence of objects; an object's identity is   *)
(* its index in the heap.  A value is an integer: a positive integer is a  *)
(* reference to the object at that address, 0 is null and a negative       *)
(* integer -(n+1) is the number n.  deepCopy's recursion is run one call   *)
(* or one loop iteration at a time on an explicit call stack, so that the  *)
(* WeakMap can be observed while children are being copied.                *)
(***************************************************************************)
EXTENDS Integers, Sequences, FiniteSets, TLC

\* ------------------------------------------------------------------------
\* Bounds of the model
\* ------------------------------------------------------------------------
\* number of objects of the source graph (addresses 1..NObj)
NObj == 2
\* most properties / elements / entries held by one source object
MaxKids == 2
\* depth of the call stack at which the engine throws RangeError
StackLimit == 6
\* top-level deepCopy calls made on one source
MaxCalls == 2

\* ------------------------------------------------------------------------
\* Values and objects
\* ------------------------------------------------------------------------
NULL == 0
Num(n) == 0 - (n + 1)
IsRef(v) == v > 0

\* the primitive inputs: null and the number 5
Prims == {NULL, Num(5)}
SrcAddr == 1..NObj
Vals == Prims \cup SrcAddr

\* names of the own properties of records and functions, in creation order
RecKeys == <<"a", "b", "c">>
\* names of the index properties of arrays
IdxKeys == <<"0", "1", "2">>

IndexOf(key) == CHOOSE i \in 1..Len(IdxKeys) : IdxKeys[i] = key

Obj(kind, props, items, num) ==
  [kind |-> kind, props |-> props, items |-> items, num |-> num]

Prop(key, val, enum) == [key |-> key, val |-> val, enum |-> enum]

\* {} and [] ; an array always owns the non-enumerable property "length"
EmptyRecord == Obj("record", <<>>, <<>>, 0)
EmptyArray == Obj("sequence", <<Prop("length", Num(0), FALSE)>>, <<>>, 0)

\* the array literal [vs[1], ..., vs[n]]
ArrayOf(vs) ==
  Obj("sequence",
      [i \in 1..(Len(vs) + 1) |->
         IF i <= Len(vs) THEN Prop(IdxKeys[i], vs[i], TRUE)
         ELSE Prop("length", Num(Len(vs)), FALSE)],
      <<>>, 0)

SeqsUpTo(S, n) == UNION {[1..k -> S] : k \in 0..n}

Injective(s) == \A i, j \in 1..Len(s) : s[i] = s[j] => i = j

\* the objects a source graph is built from, with at most n children each
PropSeqs(n) ==
  UNION {{[i \in 1..k |-> Prop(RecKeys[i], vs[i], es[i])] :
            vs \in [1..k -> Vals], es \in [1..k -> BOOLEAN]} : k \in 0..n}

Entries(n) ==
  {es \in SeqsUpTo([key : Vals, val : Vals], n) :
     Injective([i \in 1..Len(es) |-> es[i].key])}

Objects(n) ==
  {Obj("record", ps, <<>>, 0) : ps \in PropSeqs(n)}
    \cup {Obj("function", ps, <<>>, 0) : ps \in PropSeqs(n)}
    \cup {ArrayOf(vs) : vs \in SeqsUpTo(Vals, n)}
    \cup {Obj("Set", <<>>, vs, 0) : vs \in {s \in SeqsUpTo(Vals, n) : Injective(s)}}
    \cup {Obj("Map", <<>>, es, 0) : es \in Entries(n)}
    \cup {Obj("Date", <<>>, <<>>, t) : t \in {0, 1}}
    \cup {Obj("RegExp", <<>>, <<>>, li) : li \in {0, 1}}

\* the values an object refers to directly
Children(o) ==
  {o.props[i].val : i \in 1..Len(o.props)}
    \cup (IF o.kind = "Set" THEN {o.items[i] : i \in 1..Len(o.items)} ELSE {})
    \cup (IF o.kind = "Map"
          THEN {o.items[i].key : i \in 1..Len(o.items)}
                 \cup {o.items[i].val : i \in 1..Len(o.items)}
          ELSE {})

RECURSIVE ReachFrom(_, _, _)
\* the addresses reachable in heap h from the addresses in todo
ReachFrom(h, seen, todo) ==
  IF todo = {} THEN seen
  ELSE LET a == CHOOSE x \in todo : TRUE
           kids == {v \in Children(h[a]) : IsRef(v)}
       IN ReachFrom(h, seen \cup {a}, (todo \cup kids) \ (seen \cup {a}))

Reach(h, v) == IF IsRef(v) THEN ReachFrom(h, {}, {v}) ELSE {}

\* ------------------------------------------------------------------------
\* JavaScript operations used by the two functions
\* ------------------------------------------------------------------------
\* typeof v, were a function reported as an object
TypeOfFunctionObject(h, v) ==
  IF v = NULL THEN "object"
  ELSE IF ~IsRef(v) THEN "number"
  ELSE "object"

\* typeof v
TypeOf(h, v) ==
  IF v = NULL THEN "object"
  ELSE IF ~IsRef(v) THEN "number"
  ELSE IF h[v].kind = "function" THEN "function"
  ELSE "object"

\* source === null || typeof source !== "object"
NotObject(h, v) == v = NULL \/ TypeOf(h, v) # "object"

\* Array.isArray, were the test left out
IsArrayNever(h, v) == FALSE

IsArray(h, v) == h[v].kind = "sequence"

\* Reflect.ownKeys(o)
OwnKeys(o) == [i \in 1..Len(o.props) |-> o.props[i].key]

HasKey(o, key) == \E i \in 1..Len(o.props) : o.props[i].key = key

\* o[key]
PropGet(o, key) ==
  o.props[CHOOSE i \in 1..Len(o.props) : o.props[i].key = key].val

\* the keys visited by  for (key in o) if (hasOwnProperty(o, key))
EnumKeys(o) == SelectSeq(OwnKeys(o), LAMBDA k :
                 \E i \in 1..Len(o.props) : o.props[i].key = k /\ o.props[i].enum)

ReplaceVal(ps, key, val) ==
  [i \in 1..Len(ps) |-> IF ps[i].key = key THEN Prop(key, val, ps[i].enum) ELSE ps[i]]

\* the index properties of an array, without "length"
IdxProps(o) == SelectSeq(o.props, LAMBDA p : p.key # "length")

ArrLen(o) == 0 - PropGet(o, "length") - 1

\* o[key] = val ; on an array an index grows "length" and "length" truncates
PropSet(o, key, val) ==
  IF o.kind = "sequence"
  THEN IF key = "length"
       THEN LET n == 0 - val - 1
                kept == SelectSeq(IdxProps(o), LAMBDA p : IndexOf(p.key) <= n)
            IN [o EXCEPT !.props = Append(kept, Prop("length", val, FALSE))]
       ELSE LET idx == IdxProps(o)
                lower == SelectSeq(idx, LAMBDA p : IndexOf(p.key) < IndexOf(key))
                upper == SelectSeq(idx, LAMBDA p : IndexOf(p.key) > IndexOf(key))
                n == IF ArrLen(o) > IndexOf(key) THEN ArrLen(o) ELSE IndexOf(key)
            IN [o EXCEPT !.props =
                  lower \o <<Prop(key, val, TRUE)>> \o upper
                    \o <<Prop("length", Num(n), FALSE)>>]
  ELSE IF HasKey(o, key)
       THEN [o EXCEPT !.props = ReplaceVal(o.props, key, val)]
       ELSE [o EXCEPT !.props = Append(o.props, Prop(key, val, TRUE))]

\* set.add(v), were the new element put first
SetAddFront(o, v) ==
  IF \E i \in 1..Len(o.items) : o.items[i] = v THEN o
  ELSE [o EXCEPT !.items = <<v>> \o o.items]

\* set.add(v)
SetAdd(o, v) ==
  IF \E i \in 1..Len(o.items) : o.items[i] = v THEN o
  ELSE [o EXCEPT !.items = Append(o.items, v)]

\* map.set(k, v)
MapSet(o, k, v) ==
  IF \E i \in 1..Len(o.items) : o.items[i].key = k
  THEN [o EXCEPT !.items =
          [i \in 1..Len(o.items) |->
             IF o.items[i].key = k THEN [key |-> k, val |-> v] ELSE o.items[i]]]
  ELSE [o EXCEPT !.items = Append(o.items, [key |-> k, val |-> v])]

\* the result descriptor both functions return
CloneResult(status, msg, data) == [status |-> status, msg |-> msg, data |-> data]

\* ------------------------------------------------------------------------
\* State
\* ------------------------------------------------------------------------
VARIABLES
  heap,     \* the objects; SrcAddr holds the source graph, clones are appended
  root,     \* the value handed to shallowCopy / deepCopy
  pc,       \* "idle", "deep" (deepCopy running), "done", "shallow", "overflow"
  stack,    \* the frames of the running deepCopy calls, innermost last
  map,      \* the WeakMap of the running top-level call: original -> clone
  ret,      \* <<>> or <<the CloneResult returned last>>
  results   \* the CloneResults of the finished top-level deepCopy calls

vars == <<heap, root, pc, stack, map, ret, results>>

\* a deepCopy call: stage "enter" until its branch is chosen, then the kind of
\* loop it runs; i is the position of forEach; key holds keyResult.data
Frame(source) ==
  [source |-> source, target |-> 0, stage |-> "enter", i |-> 1,
   key |-> 0, haveKey |-> FALSE]

EmptyMap == [x \in {} |-> 0]

\* map.set(k, v)
WeakMapSet(m, k, v) == [x \in DOMAIN m \cup {k} |-> IF x = k THEN v ELSE m[x]]

\* every source object is reachable from the root or is left an empty record
SourceHeaps ==
  {h \in [SrcAddr -> Objects(MaxKids)] :
     \A a \in SrcAddr : a \in Reach(h, 1) \/ h[a] = EmptyRecord}

Init ==
  /\ root \in Prims \cup {1}
  /\ heap \in (IF IsRef(root) THEN SourceHeaps ELSE {[a \in SrcAddr |-> EmptyRecord]})
  /\ pc = "idle"
  /\ stack = <<>>
  /\ map = EmptyMap
  /\ ret = <<>>
  /\ results = <<>>

\* ------------------------------------------------------------------------
\* shallowCopy
\* ------------------------------------------------------------------------
RECURSIVE CopyKeys(_, _, _)
\* for (const key in source) target[key] = source[key]
CopyKeys(src, keys, target) ==
  IF keys = <<>> THEN target
  ELSE CopyKeys(src, Tail(keys), PropSet(target, Head(keys), PropGet(src, Head(keys))))

shallowCopy ==
  /\ pc = "idle"
  /\ pc' = "shallow"
  /\ IF NotObject(heap, root)
     THEN /\ ret' = <<CloneResult(FALSE, "shallow: not an object", root)>>
          /\ heap' = heap
     ELSE LET source == heap[root]
              target == IF IsArray(heap, root) THEN EmptyArray ELSE EmptyRecord
          IN /\ heap' = Append(heap, CopyKeys(source, EnumKeys(source), target))
             /\ ret' = <<CloneResult(TRUE, "shallow", Len(heap) + 1)>>
  /\ UNCHANGED <<root, stack, map, results>>

\* ------------------------------------------------------------------------
\* deepCopy
\* ------------------------------------------------------------------------
top == stack[Len(stack)]

Entering == pc = "deep" /\ stack # <<>> /\ top.stage = "enter"

Looping(stage) == pc = "deep" /\ stack # <<>> /\ top.stage = stage

\* the branch of deepCopy taken for value v: the first test that matches
Branch(h, m, v) ==
  IF NotObject(h, v) THEN "primitive"
  ELSE IF h[v].kind = "Date" THEN "Date"
  ELSE IF h[v].kind = "RegExp" THEN "RegExp"
  ELSE IF h[v].kind = "Set" THEN "Set"
  ELSE IF h[v].kind = "Map" THEN "Map"
  ELSE IF v \in DOMAIN m THEN "cached"
  ELSE "generic"

\* return r from the innermost call; the outermost return ends the traversal
Return(r) ==
  /\ stack' = SubSeq(stack, 1, Len(stack) - 1)
  /\ ret' = <<r>>
  /\ IF Len(stack) = 1
     THEN pc' = "done" /\ results' = Append(results, r)
     ELSE pc' = pc /\ results' = results

\* the innermost call moves on in its own body, frame f replacing its frame
Continue(f) ==
  /\ stack' = [stack EXCEPT ![Len(stack)] = f]
  /\ UNCHANGED <<pc, results>>

\* the innermost call, its frame now f, calls deepCopy(v, map)
Call(f, v) ==
  /\ Len(stack) < StackLimit
  /\ stack' = Append([stack EXCEPT ![Len(stack)] = f], Frame(v))
  /\ ret' = <<>>
  /\ UNCHANGED <<pc, results, heap, map, root>>

\* a top-level call deepCopy(root), with the default  map = new WeakMap()
deepCopy ==
  /\ pc \in {"idle", "done"}
  /\ Len(results) < MaxCalls
  /\ pc' = "deep"
  /\ stack' = <<Frame(root)>>
  /\ map' = EmptyMap
  /\ ret' = <<>>
  /\ UNCHANGED <<heap, root, results>>

\* the primitive branch, were it to report failure as shallowCopy does
DeepPrimitiveFails ==
  /\ Entering
  /\ Branch(heap, map, top.source) = "primitive"
  /\ Return(CloneResult(FALSE, "primitive", top.source))
  /\ UNCHANGED <<heap, map, root>>

DeepPrimitive ==
  /\ Entering
  /\ Branch(heap, map, top.source) = "primitive"
  /\ Return(CloneResult(TRUE, "primitive", top.source))
  /\ UNCHANGED <<heap, map, root>>

\* the Date branch, were it to hand back the source Date itself
DeepDateShared ==
  /\ Entering
  /\ Branch(heap, map, top.source) = "Date"
  /\ Return(CloneResult(TRUE, "Date", top.source))
  /\ UNCHANGED <<heap, map, root>>

DeepDate ==
  /\ Entering
  /\ Branch(heap, map, top.source) = "Date"
  /\ heap' = Append(heap, Obj("Date", <<>>, <<>>, heap[top.source].num))
  /\ Return(CloneResult(TRUE, "Date", Len(heap) + 1))
  /\ UNCHANGED <<map, root>>

\* the lastIndex newReg is given after its construction
CopiedLastIndex(source) == source.num

DeepRegExp ==
  /\ Entering
  /\ Branch(heap, map, top.source) = "RegExp"
  /\ LET newReg == Obj("RegExp", <<>>, <<>>, 0)
     IN heap' = Append(heap, [newReg EXCEPT !.num = CopiedLastIndex(heap[top.source])])
  /\ Return(CloneResult(TRUE, "RegExp", Len(heap) + 1))
  /\ UNCHANGED <<map, root>>

\* allocate the empty target of the given kind and register it in the WeakMap
EnterLoop(stage, empty) ==
  /\ heap' = Append(heap, empty)
  /\ map' = WeakMapSet(map, top.source, Len(heap) + 1)
  /\ Continue([top EXCEPT !.target = Len(heap) + 1, !.stage = stage])
  /\ UNCHANGED <<ret, root>>

DeepSet ==
  /\ Entering
  /\ Branch(heap, map, top.source) = "Set"
  /\ EnterLoop("Set", Obj("Set", <<>>, <<>>, 0))

DeepMap ==
  /\ Entering
  /\ Branch(heap, map, top.source) = "Map"
  /\ EnterLoop("Map", Obj("Map", <<>>, <<>>, 0))

DeepCached ==
  /\ Entering
  /\ Branch(heap, map, top.source) = "cached"
  /\ Return(CloneResult(TRUE, "cached", map[top.source]))
  /\ UNCHANGED <<heap, map, root>>

DeepGeneric ==
  /\ Entering
  /\ Branch(heap, map, top.source) = "generic"
  /\ EnterLoop("generic", IF IsArray(heap, top.source) THEN EmptyArray ELSE EmptyRecord)

\* source.forEach((value) => ...) of the Set branch
SetCall ==
  /\ Looping("Set")
  /\ ret = <<>>
  /\ top.i <= Len(heap[top.source].items)
  /\ Call(top, heap[top.source].items[top.i])

SetAddResult ==
  /\ Looping("Set")
  /\ ret # <<>>
  /\ heap' = [heap EXCEPT ![top.target] = SetAdd(@, ret[1].data)]
  /\ ret' = <<>>
  /\ Continue([top EXCEPT !.i = @ + 1])
  /\ UNCHANGED <<map, root>>

SetReturn ==
  /\ Looping("Set")
  /\ ret = <<>>
  /\ top.i > Len(heap[top.source].items)
  /\ Return(CloneResult(TRUE, "Set", top.target))
  /\ UNCHANGED <<heap, map, root>>

\* source.forEach((value, key) => ...) of the Map branch
MapCallKey ==
  /\ Looping("Map")
  /\ ret = <<>>
  /\ top.i <= Len(heap[top.source].items)
  /\ Call(top, heap[top.source].items[top.i].key)

MapCallValue ==
  /\ Looping("Map")
  /\ ret # <<>>
  /\ ~top.haveKey
  /\ Call([top EXCEPT !.key = ret[1].data, !.haveKey = TRUE],
          heap[top.source].items[top.i].val)

MapSetResult ==
  /\ Looping("Map")
  /\ ret # <<>>
  /\ top.haveKey
  /\ heap' = [heap EXCEPT ![top.target] = MapSet(@, top.key, ret[1].data)]
  /\ ret' = <<>>
  /\ Continue([top EXCEPT !.i = @ + 1, !.key = 0, !.haveKey = FALSE])
  /\ UNCHANGED <<map, root>>

MapReturn ==
  /\ Looping("Map")
  /\ ret = <<>>
  /\ top.i > Len(heap[top.source].items)
  /\ Return(CloneResult(TRUE, "Map", top.target))
  /\ UNCHANGED <<heap, map, root>>

\* Reflect.ownKeys(source).forEach((key) => ...) of the generic branch
GenericCall ==
  /\ Looping("generic")
  /\ ret = <<>>
  /\ top.i <= Len(OwnKeys(heap[top.source]))
  /\ Call(top, PropGet(heap[top.source], OwnKeys(heap[top.source])[top.i]))

\* the generic branch, were it to assign into source instead of target
GenericAssignIntoSource ==
  /\ Looping("generic")
  /\ ret # <<>>
  /\ heap' = [heap EXCEPT ![top.source] =
                PropSet(@, OwnKeys(heap[top.source])[top.i], ret[1].data)]
  /\ ret' = <<>>
  /\ Continue([top EXCEPT !.i = @ + 1])
  /\ UNCHANGED <<map, root>>

GenericAssign ==
  /\ Looping("generic")
  /\ ret # <<>>
  /\ heap' = [heap EXCEPT ![top.target] =
                PropSet(@, OwnKeys(heap[top.source])[top.i], ret[1].data)]
  /\ ret' = <<>>
  /\ Continue([top EXCEPT !.i = @ + 1])
  /\ UNCHANGED <<map, root>>

GenericReturn ==
  /\ Looping("generic")
  /\ ret = <<>>
  /\ top.i > Len(OwnKeys(heap[top.source]))
  /\ Return(CloneResult(TRUE, "generic", top.target))
  /\ UNCHANGED <<heap, map, root>>

\* the innermost call is about to call deepCopy once more
AboutToCall ==
  \/ Looping("Set") /\ ret = <<>> /\ top.i <= Len(heap[top.source].items)
  \/ Looping("Map") /\ ret = <<>> /\ top.i <= Len(heap[top.source].items)
  \/ Looping("Map") /\ ret # <<>> /\ ~top.haveKey
  \/ Looping("generic") /\ ret = <<>> /\ top.i <= Len(OwnKeys(heap[top.source]))

\* the call stack is exhausted: the engine throws RangeError, which no frame
\* catches, and the top-level call ends without a result
RangeError ==
  /\ AboutToCall
  /\ Len(stack) >= StackLimit
  /\ pc' = "overflow"
  /\ stack' = <<>>
  /\ ret' = <<>>
  /\ UNCHANGED <<heap, map, root, results>>

Next ==
  \/ shallowCopy
  \/ deepCopy
  \/ DeepPrimitive
  \/ DeepDate
  \/ DeepRegExp
  \/ DeepSet
  \/ DeepMap
  \/ DeepCached
  \/ DeepGeneric
  \/ SetCall
  \/ SetAddResult
  \/ SetReturn
  \/ MapCallKey
  \/ MapCallValue
  \/ MapSetResult
  \/ MapReturn
  \/ GenericCall
  \/ GenericAssign
  \/ GenericReturn
  \/ RangeError

Spec == Init /\ [][Next]_vars

\* ------------------------------------------------------------------------
\* Graph notions used to state the properties
\* ------------------------------------------------------------------------
Done == pc = "done"

\* the CloneResult of the top-level call that finished last
Result == results[Len(results)]

Composite(h, v) == IsRef(v) /\ h[v].kind \in {"record", "sequence", "Set", "Map"}

\* record or array
Plain(h, v) == IsRef(v) /\ h[v].kind \in {"record", "sequence"}

IsFunction(h, v) == IsRef(v) /\ h[v].kind = "function"

\* the children of an object in order: property values in own-key order, the
\* elements of a Set, key then value of each entry of a Map
ChildSeq(o) ==
  IF o.kind = "Set" THEN o.items
  ELSE IF o.kind = "Map"
       THEN [j \in 1..(2 * Len(o.items)) |->
               IF j % 2 = 1 THEN o.items[(j + 1) \div 2].key
               ELSE o.items[j \div 2].val]
       ELSE [j \in 1..Len(o.props) |-> o.props[j].val]

\* a path is a sequence of child positions
Paths == SeqsUpTo(1..(2 * MaxKids), NObj)

RECURSIVE Follow(_, _, _)
\* <<the value path p leads to from v>>, or <<>> when p leaves the graph
Follow(h, v, p) ==
  IF p = <<>> THEN <<v>>
  ELSE IF ~IsRef(v) THEN <<>>
  ELSE IF Head(p) > Len(ChildSeq(h[v])) THEN <<>>
  ELSE Follow(h, ChildSeq(h[v])[Head(p)], Tail(p))

RECURSIVE ThroughPlain(_, _, _)
\* path p exists from v and every object it leaves is a record or an array
ThroughPlain(h, v, p) ==
  \/ p = <<>>
  \/ /\ Plain(h, v)
     /\ Head(p) <= Len(ChildSeq(h[v]))
     /\ ThroughPlain(h, ChildSeq(h[v])[Head(p)], Tail(p))

RECURSIVE ThroughNoFn(_, _, _)
\* path p exists from v and no object it leaves is a function
ThroughNoFn(h, v, p) ==
  \/ p = <<>>
  \/ /\ IsRef(v)
     /\ ~IsFunction(h, v)
     /\ Head(p) <= Len(ChildSeq(h[v]))
     /\ ThroughNoFn(h, ChildSeq(h[v])[Head(p)], Tail(p))

RECURSIVE ReachNoFnFrom(_, _, _)
\* the objects reachable from todo along paths that pass through no function
ReachNoFnFrom(h, seen, todo) ==
  IF todo = {} THEN seen
  ELSE LET a == CHOOSE x \in todo : TRUE
           kids == IF h[a].kind = "function" THEN {}
                   ELSE {v \in Children(h[a]) : IsRef(v)}
       IN ReachNoFnFrom(h, seen \cup {a}, (todo \cup kids) \ (seen \cup {a}))

ReachNoFn(h, v) ==
  IF IsRef(v) THEN {a \in ReachNoFnFrom(h, {}, {v}) : h[a].kind # "function"} ELSE {}

\* same kind, same own keys, same number of children, same primitive children
LocalEq(h, a, b) ==
  /\ h[a].kind = h[b].kind
  /\ h[a].num = h[b].num
  /\ OwnKeys(h[a]) = OwnKeys(h[b])
  /\ Len(ChildSeq(h[a])) = Len(ChildSeq(h[b]))
  /\ \A j \in 1..Len(ChildSeq(h[a])) :
       LET x == ChildSeq(h[a])[j]
           y == ChildSeq(h[b])[j]
       IN IF IsRef(x) THEN IsRef(y) ELSE x = y

RECURSIVE Paired(_, _, _)
\* the pairs of objects met by walking two graphs in step from the pairs todo
Paired(h, seen, todo) ==
  IF todo = {} THEN seen
  ELSE LET pr == CHOOSE x \in todo : TRUE
           a == pr[1]
           b == pr[2]
           kids == IF a = b \/ ~LocalEq(h, a, b) THEN {}
                   ELSE {<<ChildSeq(h[a])[j], ChildSeq(h[b])[j]>> :
                           j \in {k \in 1..Len(ChildSeq(h[a])) : IsRef(ChildSeq(h[a])[k])}}
       IN Paired(h, seen \cup {pr}, (todo \cup kids) \ (seen \cup {pr}))

\* structural equality of two values: the same primitive, or objects whose
\* graphs agree in kind, keys, order and primitive content at every position
StructEq(h, v, w) ==
  IF ~IsRef(v) \/ ~IsRef(w) THEN v = w
  ELSE \A pr \in Paired(h, {}, {<<v, w>>}) : pr[1] = pr[2] \/ LocalEq(h, pr[1], pr[2])

\* ------------------------------------------------------------------------
\* Properties
\* ------------------------------------------------------------------------

\* C1: a top-level deepCopy with a fresh WeakMap terminates on every finite
\* source graph, cyclic or not, whatever composites lie on a cycle: the
\* recursion never runs until the call stack is exhausted.
DeepCopyTerminates == pc # "overflow"

\* C2: within one top-level deepCopy, two references that lead to the same
\* original composite (record, array, Set or Map) lead to one and the same
\* clone in the result.
SharedReferenceOneClone ==
  Done =>
    \A p, q \in Paths :
      (/\ ThroughNoFn(heap, root, p)
       /\ ThroughNoFn(heap, root, q)
       /\ Follow(heap, root, p) = Follow(heap, root, q)
       /\ Composite(heap, Follow(heap, root, p)[1]))
        => /\ Follow(heap, Result.data, p) # <<>>
           /\ Follow(heap, Result.data, p) = Follow(heap, Result.data, q)

\* a chain of record/array fields that leads from the root back to the root
SelfChain(p) ==
  /\ p # <<>>
  /\ Plain(heap, root)
  /\ ThroughPlain(heap, root, p)
  /\ Follow(heap, root, p) = <<root>>

\* C3: for a record or array a that refers to itself through a chain of
\* record/array fields, deepCopy(a) terminates and returns a new object b,
\* different from a, on which the same chain leads back to b itself.
SelfReferenceResolved ==
  \A p \in Paths :
    SelfChain(p) =>
      /\ pc # "overflow"
      /\ Done => /\ Result.data # root
                 /\ Follow(heap, Result.data, p) = <<Result.data>>

\* the part of C3 that concerns the returned data alone
SelfReferenceResolvedOnReturn ==
  Done =>
    \A p \in Paths :
      SelfChain(p) => /\ Result.data # root
                      /\ Result.data \notin SrcAddr
                      /\ Follow(heap, Result.data, p) = <<Result.data>>

\* C7: while a composite is being cloned (its call has registered a target and
\* is copying children), the WeakMap maps the composite to the very target
\* that call will return.
MemoHoldsTargetInProgress ==
  \A k \in 1..Len(stack) :
    stack[k].stage # "enter" =>
      /\ stack[k].source \in DOMAIN map
      /\ map[stack[k].source] = stack[k].target

\* RangeError is thrown only from a recursion that cannot end: some Set or Map
\* is being cloned by two nested calls with only Set and Map calls between
OverflowOnlySetMapCycle ==
  [][RangeError =>
       \E j, k \in 1..Len(stack) :
         /\ j < k
         /\ stack[j].source = stack[k].source
         /\ \A l \in j..k : stack[l].stage \in {"Set", "Map"}]_vars

\* C4 as stated: after deepCopy no record, array, Set, Map, Date or RegExp
\* reachable from the returned data is an object reachable from source.
CloneSharesNothing ==
  Done =>
    \A a \in Reach(heap, Result.data) \cap Reach(heap, root) :
      heap[a].kind \notin {"record", "sequence", "Set", "Map", "Date", "RegExp"}

\* C4 amended: no object reachable from the returned data along a path that
\* passes through no function value is an object reachable from source; a
\* function is returned as it is, together with whatever it refers to.
CloneSharesNothingOutsideFunctions ==
  \A k \in 1..Len(results) :
    ReachNoFn(heap, results[k].data) \cap Reach(heap, root) = {}

\* src = {a: [..]} has been cloned: a new record holding a new array
CloneOfNestedArray ==
  /\ Done
  /\ Plain(heap, root)
  /\ \E j \in 1..Len(heap[root].props) :
       LET v == heap[root].props[j].val
           w == ChildSeq(heap[Result.data])[j]
       IN /\ IsRef(v) /\ v # root
          /\ heap[v].kind = "sequence"
          /\ ArrLen(heap[v]) = MaxKids
          /\ IsRef(w) /\ w # v
          /\ heap[w].kind = "sequence"

\* the value whose clone the innermost loop has just been handed
Copied ==
  LET o == heap[top.source]
  IN IF top.stage = "Set" THEN o.items[top.i]
     ELSE IF top.stage = "Map"
          THEN (IF top.haveKey THEN o.items[top.i].val ELSE o.items[top.i].key)
          ELSE o.props[top.i].val

\* C5: shallowCopy reports status false exactly when source is null or not of
\* object type, and then hands back source itself; every return of deepCopy,
\* at every depth, has status true, and a primitive or null is handed back as
\* it is.
ErrorsAreValues ==
  /\ pc = "shallow" =>
       /\ ret[1].status = FALSE <=> (root = NULL \/ TypeOf(heap, root) # "object")
       /\ ret[1].status = FALSE => ret[1].data = root
  /\ (pc \in {"deep", "done"} /\ ret # <<>>) => ret[1].status = TRUE
  /\ \A k \in 1..Len(results) : results[k].status = TRUE
  /\ (Done /\ ~IsRef(root)) => Result.data = root
  /\ (pc = "deep" /\ stack # <<>> /\ ret # <<>> /\ ~IsRef(Copied)) =>
       ret[1].data = Copied

\* shallowCopy(5) has returned {status: false, data: 5}
ShallowCopyOfNumberFailed ==
  /\ pc = "shallow"
  /\ root = Num(5)
  /\ ret = <<CloneResult(FALSE, "shallow: not an object", Num(5))>>

\* C6: for a composite source shallowCopy returns status true and a newly
\* allocated container, an array for an array and a record otherwise, which
\* is not source and holds under every own enumerable key of source the very
\* value source holds there; no object that existed before is changed.
ShallowCopyContract ==
  [][(pc = "idle" /\ pc' = "shallow" /\ root # NULL /\ TypeOf(heap, root) = "object") =>
       LET r == ret'[1]
           source == heap[root]
       IN /\ r.status = TRUE
          /\ r.data \notin DOMAIN heap
          /\ r.data \in DOMAIN heap'
          /\ r.data # root
          /\ heap'[r.data].kind =
               (IF source.kind = "sequence" THEN "sequence" ELSE "record")
          /\ \A j \in 1..Len(source.props) :
               source.props[j].enum =>
                 /\ HasKey(heap'[r.data], source.props[j].key)
                 /\ PropGet(heap'[r.data], source.props[j].key) = source.props[j].val
          /\ \A a \in DOMAIN heap : heap'[a] = heap[a]]_vars

\* shallowCopy({a: {b: ..}}) has returned a record whose a is source.a itself
ShallowCopySharesChild ==
  /\ pc = "shallow"
  /\ ret # <<>>
  /\ ret[1].status
  /\ heap[root].kind = "record"
  /\ \E j \in 1..Len(heap[root].props) :
       LET p == heap[root].props[j]
       IN /\ p.enum
          /\ IsRef(p.val) /\ p.val # root
          /\ heap[p.val].kind = "record"
          /\ heap[p.val].props # <<>>
          /\ PropGet(heap[ret[1].data], p.key) = p.val

\* the clone y stands for the original x: the same primitive or function, or
\* a new object of the same kind
Stands(x, y) ==
  IF NotObject(heap, x) THEN y = x
  ELSE IsRef(y) /\ y \notin SrcAddr /\ heap[y].kind = heap[x].kind

\* C8: cloning a Set or a Map keeps size and iteration order: the i-th
\* element (entry) of the clone is the clone of the i-th element (entry) of
\* the original; nothing is lost, merged or reordered.
SetMapOrderPreserved ==
  /\ \A k \in 1..Len(stack) :
       LET f == stack[k]
           s == heap[f.source].items
           t == heap[f.target].items
       IN /\ f.stage = "Set" =>
               /\ Len(t) = f.i - 1
               /\ \A j \in 1..Len(t) : Stands(s[j], t[j])
          /\ f.stage = "Map" =>
               /\ Len(t) = f.i - 1
               /\ \A j \in 1..Len(t) :
                    Stands(s[j].key, t[j].key) /\ Stands(s[j].val, t[j].val)
  /\ Done =>
       \A c \in DOMAIN map :
         LET s == heap[c].items
             t == heap[map[c]].items
         IN /\ heap[c].kind = "Set" =>
                 /\ Len(t) = Len(s)
                 /\ \A j \in 1..Len(s) : StructEq(heap, s[j], t[j])
            /\ heap[c].kind = "Map" =>
                 /\ Len(t) = Len(s)
                 /\ \A j \in 1..Len(s) :
                      /\ StructEq(heap, s[j].key, t[j].key)
                      /\ StructEq(heap, s[j].val, t[j].val)

\* a Set of a number followed by an object has been cloned
CloneOfOrderedSet ==
  /\ Done
  /\ IsRef(root)
  /\ heap[root].kind = "Set"
  /\ Len(heap[root].items) = MaxKids
  /\ heap[root].items[1] = Num(5)
  /\ Composite(heap, heap[root].items[MaxKids])
  /\ Len(heap[Result.data].items) = MaxKids

\* C9: two top-level deepCopy calls on the same value, each with its own fresh
\* WeakMap, return structurally equal results, and no step of either call
\* changes an object of the source graph (lastIndex of a RegExp included).
TwoCallsAgreeSourceKept ==
  [][/\ \A a \in SrcAddr : heap'[a] = heap[a]
     /\ \A j, k \in 1..Len(results') :
          /\ results'[j].status = results'[k].status
          /\ StructEq(heap', results'[j].data, results'[k].data)]_vars

\* {a: /re/ with lastIndex 1, ..} has been cloned twice, into two different
\* records
ClonedTwice ==
  /\ Done
  /\ Len(results) = MaxCalls
  /\ results[1].data # results[MaxCalls].data
  /\ heap[root].kind = "record"
  /\ \E j \in 1..Len(heap[root].props) :
       LET v == heap[root].props[j].val
       IN IsRef(v) /\ heap[v].kind = "RegExp" /\ heap[v].num = 1

\* C10 as stated: a function given to deepCopy, at top level or as the value
\* of a record field, is cloned by the generic rule into a new container
\* holding the function's own keys.
FunctionClonedGeneric ==
  Done =>
    /\ IsFunction(heap, root) =>
         /\ Result.data # root
         /\ Result.data \notin SrcAddr
         /\ OwnKeys(heap[Result.data]) = OwnKeys(heap[root])
    /\ Plain(heap, root) =>
         \A j \in 1..Len(heap[root].props) :
           IsFunction(heap, heap[root].props[j].val) =>
             ChildSeq(heap[Result.data])[j] # heap[root].props[j].val

\* C10 amended: a function given to deepCopy, at top level or as the value
\* of a record field, is handed back by the primitive rule: the data is the
\* original function itself, nothing is allocated for it and none of its keys
\* is copied.
FunctionPassedThrough ==
  Done =>
    /\ IsFunction(heap, root) =>
         /\ Result = CloneResult(TRUE, "primitive", root)
         /\ Len(heap) = NObj
    /\ Plain(heap, root) =>
         \A j \in 1..Len(heap[root].props) :
           IsFunction(heap, heap[root].props[j].val) =>
             ChildSeq(heap[Result.data])[j] = heap[root].props[j].val

\* {a: f} with a function f that owns keys has been cloned
CloneOfRecordWithFunction ==
  /\ Done
  /\ IsRef(root)
  /\ heap[root].kind = "record"
  /\ \E j \in 1..Len(heap[root].props) :
       LET v == heap[root].props[j].val
       IN /\ IsFunction(heap, v)
          /\ heap[v].props # <<>>
          /\ ChildSeq(heap[Result.data])[j] = v

====
